---------------------------- MODULE Spec2Model ----------------------------
(***************************************************************************)
(* Model of src/main.go: an image is fetched from a URL, normalised by a   *)
(* preprocessing graph, classified by a pretrained graph, and the five     *)
(* most probable labels are printed.                                       *)
(*                                                                         *)
(* Abstractions.                                                           *)
(*  - A label string is a natural number: line i of the labels file is the *)
(*    name i (the zero value "" of a Go string is 0).                      *)
(*  - A float32 probability is a natural number of ProbValues, ordered as  *)
(*    the floats are.  NaN is left out: the probabilities are the output   *)
(*    of a softmax layer, in [0,1].                                        *)
(*  - A tensor is its dtype and its shape; pixel values are not modelled.  *)
(*  - An encoded image is whether it is a valid JPEG and, when it is, its  *)
(*    height, width and number of colour components.                       *)
(***************************************************************************)
EXTENDS Integers, Sequences, FiniteSets, TLC

\* ------------------------------------------------------------------ bounds
MaxLen == 6     \* longest labels file and longest probability vector
MaxProb == 2    \* probabilities are 0..MaxProb
MaxDim == 2     \* source images are 1..MaxDim pixels high and wide

\* ------------------------------------------------------- program constants
TopK == 5           \* resultLabels[:5]
Channels == 3       \* op.DecodeJpegChannels(3)
TargetSize == 224   \* []int32{224, 224}
Mean == 117         \* float32(117)
BatchAxis == 0      \* int32(0), the axis of ExpandDims

ProbValues == 0..MaxProb
SourceChannels == {1, 3, 4}    \* grayscale, RGB/YCbCr, CMYK

SeqsUpTo(S, n) == UNION {[1..k -> S] : k \in 0..n}

\* The labels files: line i holds the name i.
LabelFiles == {[i \in 1..n |-> i] : n \in 0..MaxLen}
ProbVectors == SeqsUpTo(ProbValues, MaxLen)

\* ---------------------------------------------------------------- ranking
\* type Label struct { Label string; Probability float32 }
MkLabel(l, p) == [Label |-> l, Probability |-> p]
ZeroLabel == MkLabel(0, 0)

\* func (a Labels) Less(i, j int) bool    (indices are 1-based here)
LessAscending(a, i, j) == a[i].Probability < a[j].Probability
Less(a, i, j) == a[i].Probability > a[j].Probability

\* func (a Labels) Swap(i, j int)
Swap(a, i, j) == [a EXCEPT ![i] = a[j], ![j] = a[i]]

\* append(resultLabels, x): a slice is its elements and its capacity; a full
\* slice grows to twice its capacity (1 from nil).  A Label is 24 bytes, and
\* 24, 48, 96, 192, ... are allocator size classes, so nothing is rounded up.
GoAppend(s, x) ==
    [elems |-> Append(s.elems, x),
     cap   |-> IF Len(s.elems) + 1 <= s.cap THEN s.cap
               ELSE IF s.cap = 0 THEN 1 ELSE 2 * s.cap]

NilSlice == [elems |-> <<>>, cap |-> 0]

\* if i >= len(labels) { break }     (i is the 0-based index)
LoopBreakOffByOne(i, labels) == i >= Len(labels) - 1
LoopBreak(i, labels) == i >= Len(labels)

\* for i, p := range probabilities { ... append ... }
RECURSIVE PairLoop(_, _, _, _)
PairLoop(labels, probabilities, i, resultLabels) ==
    IF i >= Len(probabilities) THEN resultLabels
    ELSE IF LoopBreak(i, labels) THEN resultLabels
    ELSE PairLoop(labels, probabilities, i + 1,
                  GoAppend(resultLabels,
                           MkLabel(labels[i + 1], probabilities[i + 1])))

\* sort.Sort on fewer than 12 elements is an insertion sort over Less and Swap
\* (Go releases before 1.19 first compare elements 6 apart, which can only
\* change the order of equal probabilities in slices of 7 or more):
\*   for i := a + 1; i < b; i++ {
\*       for j := i; j > a && data.Less(j, j-1); j-- { data.Swap(j, j-1) } }
RECURSIVE InsertInner(_, _)
InsertInner(a, j) ==
    IF j > 1 /\ Less(a, j, j - 1) THEN InsertInner(Swap(a, j, j - 1), j - 1)
    ELSE a

RECURSIVE InsertOuter(_, _)
InsertOuter(a, i) ==
    IF i > Len(a) THEN a ELSE InsertOuter(InsertInner(a, i), i + 1)

SortSort(a) == InsertOuter(a, 2)

\* s[:hi]: panics when hi > cap(s); the elements between len and cap are zero.
SliceTo(s, hi) ==
    IF hi > s.cap THEN [outcome |-> "panic", result |-> <<>>]
    ELSE [outcome |-> "ok",
          result  |-> [i \in 1..hi |->
                          IF i <= Len(s.elems) THEN s.elems[i] ELSE ZeroLabel]]

\* func getTopFiveLabels(labels []string, probabilities []float32) []Label
getTopFiveLabels(labels, probabilities) ==
    LET paired == PairLoop(labels, probabilities, 0, NilSlice)
        sorted == [paired EXCEPT !.elems = SortSort(paired.elems)]
    IN  SliceTo(sorted, TopK)


\* ---------------------------------------------------------------- tensors
\* An encoded image: the bytes of the response body.
NoImage == [valid |-> FALSE, h |-> 0, w |-> 0, c |-> 0]
Images ==
    {NoImage} \cup
    [valid : {TRUE}, h : 1..MaxDim, w : 1..MaxDim, c : SourceChannels]

\* A tensor: dtype, shape and, for a string scalar, the bytes it holds.  err
\* marks the result of an operation that failed.
MkTensor(dtype, shape, jpeg) ==
    [err |-> FALSE, dtype |-> dtype, shape |-> shape, jpeg |-> jpeg]
NoTensor == MkTensor("", <<>>, NoImage)
ErrTensor == [NoTensor EXCEPT !.err = TRUE]

\* A node of a graph: its operation, the node whose output it consumes (0 for
\* none), the dtype attribute and the integer attributes (the Const operands
\* make_batch, size and mean are kept as attributes of their consumer).
MkNode(o, in, dtype, arg) == [op |-> o, in |-> in, dtype |-> dtype, arg |-> arg]

\* func getNormalizedGraph() (graph, input, output, err)
getNormalizedGraphSourceChannels ==
    [nodes |-> << MkNode("Placeholder", 0, "string", <<>>),
                  MkNode("DecodeJpeg", 1, "uint8", <<0>>),
                  MkNode("Cast", 2, "float", <<>>),
                  MkNode("ExpandDims", 3, "float", <<BatchAxis>>),
                  MkNode("ResizeBilinear", 4, "float", <<TargetSize, TargetSize>>),
                  MkNode("Sub", 5, "float", <<Mean>>) >>,
     input |-> 1,
     output |-> 6]
getNormalizedGraph ==
    [nodes |-> << MkNode("Placeholder", 0, "string", <<>>),
                  MkNode("DecodeJpeg", 1, "uint8", <<Channels>>),
                  MkNode("Cast", 2, "float", <<>>),
                  MkNode("ExpandDims", 3, "float", <<BatchAxis>>),
                  MkNode("ResizeBilinear", 4, "float", <<TargetSize, TargetSize>>),
                  MkNode("Sub", 5, "float", <<Mean>>) >>,
     input |-> 1,
     output |-> 6]
NoGraph == [nodes |-> <<>>, input |-> 0, output |-> 0]

\* The kernels of the operations the graph uses, on dtype and shape.
InsertAt(s, k, x) == SubSeq(s, 1, k) \o <<x>> \o SubSeq(s, k + 1, Len(s))

ApplyOp(node, x) ==
    IF x.err THEN ErrTensor
    ELSE CASE node.op = "DecodeJpeg" ->
                \* a string scalar holding a JPEG; channels = 0 keeps the
                \* source's components, otherwise the image is converted
                IF x.dtype = "string" /\ x.shape = <<>> /\ x.jpeg.valid
                THEN MkTensor("uint8",
                              <<x.jpeg.h, x.jpeg.w,
                                IF node.arg[1] = 0 THEN x.jpeg.c ELSE node.arg[1]>>,
                              NoImage)
                ELSE ErrTensor
           [] node.op = "Cast" ->
                IF x.dtype = "string" THEN ErrTensor
                ELSE MkTensor(node.dtype, x.shape, NoImage)
           [] node.op = "ExpandDims" ->
                IF node.arg[1] <= Len(x.shape)
                THEN MkTensor(x.dtype, InsertAt(x.shape, node.arg[1], 1), NoImage)
                ELSE ErrTensor
           [] node.op = "ResizeBilinear" ->
                \* input [batch, height, width, channels]; the output is float
                IF Len(x.shape) = 4 /\ x.dtype # "string"
                THEN MkTensor("float",
                              <<x.shape[1], node.arg[1], node.arg[2], x.shape[4]>>,
                              NoImage)
                ELSE ErrTensor
           [] node.op = "Sub" ->
                \* x - y with y a scalar of node.dtype: the shape of x
                IF x.dtype = node.dtype
                THEN MkTensor(x.dtype, x.shape, NoImage)
                ELSE ErrTensor
           [] OTHER -> ErrTensor

\* session.Run(feeds, fetches, nil) on one feed and one fetch: the value of
\* node n when the placeholder `port` is bound to `feed`.
RECURSIVE RunNode(_, _, _, _)
RunNode(g, n, port, feed) ==
    IF n < 1 \/ n > Len(g.nodes) THEN ErrTensor
    ELSE IF g.nodes[n].op = "Placeholder"
         THEN IF n = port /\ feed.dtype = g.nodes[n].dtype THEN feed ELSE ErrTensor
         ELSE ApplyOp(g.nodes[n], RunNode(g, g.nodes[n].in, port, feed))

\* The pretrained graph's "input" port takes a [1,224,224,3] float tensor.
ModelInputOk(t) ==
    /\ ~t.err
    /\ t.dtype = "float"
    /\ t.shape = <<1, TargetSize, TargetSize, Channels>>


\* ------------------------------------------------------------------ state
VARIABLES
    pc,             \* the statement the program is at
    hasArg,         \* len(os.Args) >= 2
    stdout,         \* the lines printed by fmt.Printf
    exitStatus,     \* the process's exit status; -1 while it runs
    err,            \* the step whose error was reported, "none" if none
    copyErr,        \* io.Copy returned an error (the code drops it)
    bodyOpen,       \* response.Body is open
    labels,         \* main: the label table returned by loadModel
    buf,            \* normalizeImage: the bytes read from the body
    graph,          \* normalizeImage: the preprocessing graph
    normalized,     \* normalizeImage: normalized[0]
    tensor,         \* normalizeImage: the string tensor; main: the image tensor
    sessions,       \* the sessions created and not closed
    probabilities,  \* main: output[0].Value().([][]float32)[0]
    res,            \* main: the result of getTopFiveLabels
    rankOutcome,    \* "none" before the call; "ok" or "panic" after it
    trace           \* history: the steps executed so far, in order

vars == <<pc, hasArg, stdout, exitStatus, err, copyErr, bodyOpen, labels, buf,
          graph, normalized, tensor, sessions, probabilities, res, rankOutcome,
          trace>>

UrlLine == [kind |-> "url", label |-> ZeroLabel]
LabelLine(l) == [kind |-> "label", label |-> l]

Init ==
    /\ pc = "args"
    /\ hasArg \in BOOLEAN
    /\ stdout = <<>>
    /\ exitStatus = -1
    /\ err = "none"
    /\ copyErr = FALSE
    /\ bodyOpen = FALSE
    /\ labels = <<>>
    /\ buf = NoImage
    /\ graph = NoGraph
    /\ normalized = NoTensor
    /\ tensor = NoTensor
    /\ sessions = {}
    /\ probabilities = <<>>
    /\ res = <<>>
    /\ rankOutcome = "none"
    /\ trace = <<>>

\* log.Fatalf: the message is written and os.Exit(1) ends the process; the
\* deferred calls do not run.
Fatalf(step) ==
    /\ pc' = "exited"
    /\ exitStatus' = 1
    /\ err' = step

\* main, lines 39-42: the usage check and the echo of the URL.
CheckArgs ==
    /\ pc = "args"
    /\ trace' = Append(trace, "args")
    /\ IF hasArg
       THEN /\ stdout' = Append(stdout, UrlLine)
            /\ pc' = "get"
            /\ UNCHANGED <<exitStatus, err>>
       ELSE /\ Fatalf("args")
            /\ UNCHANGED stdout
    /\ UNCHANGED <<hasArg, copyErr, bodyOpen, labels, buf, graph, normalized,
                   tensor, sessions, probabilities, res, rankOutcome>>

\* main, lines 45-49: http.Get and the deferred close of the body.
HttpGetThenNormalize ==
    /\ pc = "get"
    /\ trace' = Append(trace, "get")
    /\ \E ok \in BOOLEAN :
          IF ok
          THEN /\ bodyOpen' = TRUE
               /\ pc' = "copy"
               /\ UNCHANGED <<exitStatus, err>>
          ELSE /\ Fatalf("get")
               /\ UNCHANGED bodyOpen
    /\ UNCHANGED <<hasArg, stdout, copyErr, labels, buf, graph, normalized,
                   tensor, sessions, probabilities, res, rankOutcome>>
HttpGet ==
    /\ pc = "get"
    /\ trace' = Append(trace, "get")
    /\ \E ok \in BOOLEAN :
          IF ok
          THEN /\ bodyOpen' = TRUE
               /\ pc' = "loadModel"
               /\ UNCHANGED <<exitStatus, err>>
          ELSE /\ Fatalf("get")
               /\ UNCHANGED bodyOpen
    /\ UNCHANGED <<hasArg, stdout, copyErr, labels, buf, graph, normalized,
                   tensor, sessions, probabilities, res, rankOutcome>>

\* main, lines 52-55, and loadModel: the graph file is read and imported, the
\* labels file is opened and scanned; any of the four can fail.
LoadModelIgnoresError ==
    /\ pc = "loadModel"
    /\ trace' = Append(trace, "loadModel")
    /\ \E fail \in {"none", "ReadFile", "Import", "Open", "Scan"} :
          IF fail = "none"
          THEN /\ \E ls \in LabelFiles : labels' = ls
               /\ pc' = "copy"
               /\ UNCHANGED <<exitStatus, err>>
          ELSE /\ err' = "loadModel"
               /\ pc' = "copy"
               /\ UNCHANGED <<labels, exitStatus>>
    /\ UNCHANGED <<hasArg, stdout, copyErr, bodyOpen, buf, graph, normalized,
                   tensor, sessions, probabilities, res, rankOutcome>>
LoadModel ==
    /\ pc = "loadModel"
    /\ trace' = Append(trace, "loadModel")
    /\ \E fail \in {"none", "ReadFile", "Import", "Open", "Scan"} :
          IF fail = "none"
          THEN /\ \E ls \in LabelFiles : labels' = ls
               /\ pc' = "copy"
               /\ UNCHANGED <<exitStatus, err>>
          ELSE /\ Fatalf("loadModel")
               /\ UNCHANGED labels
    /\ UNCHANGED <<hasArg, stdout, copyErr, bodyOpen, buf, graph, normalized,
                   tensor, sessions, probabilities, res, rankOutcome>>

\* normalizeImage, lines 139-140: io.Copy(&buf, body).  Its error is not
\* looked at; after a failed read buf holds what arrived, which may or may not
\* decode.
Copy ==
    /\ pc = "copy"
    /\ trace' = Append(trace, "copy")
    /\ \E img \in Images, e \in BOOLEAN :
          /\ buf' = img
          /\ copyErr' = e
    /\ pc' = "newTensor"
    /\ UNCHANGED <<hasArg, stdout, exitStatus, err, bodyOpen, labels, graph,
                   normalized, tensor, sessions, probabilities, res, rankOutcome>>

\* normalizeImage, lines 142-145: tensorflow.NewTensor(buf.String()); the
\* error returns to main, which ends in log.Fatalf (lines 59-61).
NewTensor ==
    /\ pc = "newTensor"
    /\ trace' = Append(trace, "newTensor")
    /\ \E ok \in BOOLEAN :
          IF ok
          THEN /\ tensor' = MkTensor("string", <<>>, buf)
               /\ pc' = "getGraph"
               /\ UNCHANGED <<exitStatus, err>>
          ELSE /\ Fatalf("normalizeImage")
               /\ UNCHANGED tensor
    /\ UNCHANGED <<hasArg, stdout, copyErr, bodyOpen, labels, buf, graph,
                   normalized, sessions, probabilities, res, rankOutcome>>

\* normalizeImage, lines 147-150: getNormalizedGraph(), whose s.Finalize()
\* can report an error.
GetGraph ==
    /\ pc = "getGraph"
    /\ trace' = Append(trace, "getNormalizedGraph")
    /\ \E ok \in BOOLEAN :
          IF ok
          THEN /\ graph' = getNormalizedGraph
               /\ pc' = "preSession"
               /\ UNCHANGED <<exitStatus, err>>
          ELSE /\ Fatalf("normalizeImage")
               /\ UNCHANGED graph
    /\ UNCHANGED <<hasArg, stdout, copyErr, bodyOpen, labels, buf, normalized,
                   tensor, sessions, probabilities, res, rankOutcome>>

\* normalizeImage, lines 153-156: tensorflow.NewSession(graph, nil).
PreSession ==
    /\ pc = "preSession"
    /\ trace' = Append(trace, "preSession")
    /\ \E ok \in BOOLEAN :
          IF ok
          THEN /\ sessions' = sessions \cup {"normalize"}
               /\ pc' = "preRun"
               /\ UNCHANGED <<exitStatus, err>>
          ELSE /\ Fatalf("normalizeImage")
               /\ UNCHANGED sessions
    /\ UNCHANGED <<hasArg, stdout, copyErr, bodyOpen, labels, buf, graph,
                   normalized, tensor, probabilities, res, rankOutcome>>

\* normalizeImage, lines 159-169: session.Run binds input to the string
\* tensor and fetches output.  It fails when a kernel fails (bytes that are
\* no JPEG) and can fail for reasons of its own.
PreRun ==
    /\ pc = "preRun"
    /\ trace' = Append(trace, "preRun")
    /\ LET out == RunNode(graph, graph.output, graph.input, tensor)
       IN  \E ok \in BOOLEAN :
              IF ok /\ ~out.err
              THEN /\ normalized' = out
                   /\ pc' = "normReturn"
                   /\ UNCHANGED <<exitStatus, err>>
              ELSE /\ Fatalf("normalizeImage")
                   /\ UNCHANGED normalized
    /\ UNCHANGED <<hasArg, stdout, copyErr, bodyOpen, labels, buf, graph,
                   tensor, sessions, probabilities, res, rankOutcome>>

\* normalizeImage, line 172, and main, line 58: normalized[0] becomes main's
\* tensor; the locals of normalizeImage are gone.
NormalizeReturn ==
    /\ pc = "normReturn"
    /\ tensor' = normalized
    /\ buf' = NoImage
    /\ graph' = NoGraph
    /\ normalized' = NoTensor
    /\ pc' = "newSession"
    /\ UNCHANGED <<hasArg, stdout, exitStatus, err, copyErr, bodyOpen, labels,
                   sessions, probabilities, res, rankOutcome, trace>>

\* main, lines 64-67: tensorflow.NewSession(modelGraph, nil).
NewSession ==
    /\ pc = "newSession"
    /\ trace' = Append(trace, "newSession")
    /\ \E ok \in BOOLEAN :
          IF ok
          THEN /\ sessions' = sessions \cup {"classify"}
               /\ pc' = "run"
               /\ UNCHANGED <<exitStatus, err>>
          ELSE /\ Fatalf("newSession")
               /\ UNCHANGED sessions
    /\ UNCHANGED <<hasArg, stdout, copyErr, bodyOpen, labels, buf, graph,
                   normalized, tensor, probabilities, res, rankOutcome>>

\* main, lines 71-81: session.Run on the pretrained graph; output[0][0] is
\* the probability vector.
Run ==
    /\ pc = "run"
    /\ trace' = Append(trace, "run")
    /\ \E ok \in BOOLEAN :
          IF ok /\ ModelInputOk(tensor)
          THEN /\ \E ps \in ProbVectors : probabilities' = ps
               /\ pc' = "rank"
               /\ UNCHANGED <<exitStatus, err>>
          ELSE /\ Fatalf("run")
               /\ UNCHANGED probabilities
    /\ UNCHANGED <<hasArg, stdout, copyErr, bodyOpen, labels, buf, graph,
                   normalized, tensor, sessions, res, rankOutcome>>

\* main, line 84: getTopFiveLabels.  A panic runs the deferred close of the
\* body and ends the process with status 2.
Rank ==
    /\ pc = "rank"
    /\ trace' = Append(trace, "rank")
    /\ LET r == getTopFiveLabels(labels, probabilities)
       IN  /\ rankOutcome' = r.outcome
           /\ res' = r.result
           /\ IF r.outcome = "ok"
              THEN /\ pc' = "print"
                   /\ UNCHANGED <<exitStatus, bodyOpen>>
              ELSE /\ pc' = "exited"
                   /\ exitStatus' = 2
                   /\ bodyOpen' = FALSE
    /\ UNCHANGED <<hasArg, stdout, err, copyErr, labels, buf, graph, normalized,
                   tensor, sessions, probabilities>>

\* The label lines printed so far.
Printed == Len(SelectSeq(stdout, LAMBDA l : l.kind = "label"))

\* main, lines 85-87: one turn of the loop over res.
PrintLabel ==
    /\ pc = "print"
    /\ Printed < Len(res)
    /\ stdout' = Append(stdout, LabelLine(res[Printed + 1]))
    /\ UNCHANGED <<pc, hasArg, exitStatus, err, copyErr, bodyOpen, labels, buf,
                   graph, normalized, tensor, sessions, probabilities, res,
                   rankOutcome, trace>>

\* main, line 88: main returns; the deferred close of the body runs and the
\* process ends with status 0.
Return ==
    /\ pc = "print"
    /\ Printed = Len(res)
    /\ pc' = "exited"
    /\ exitStatus' = 0
    /\ bodyOpen' = FALSE
    /\ UNCHANGED <<hasArg, stdout, err, copyErr, labels, buf, graph, normalized,
                   tensor, sessions, probabilities, res, rankOutcome, trace>>

Next ==
    \/ CheckArgs
    \/ HttpGet
    \/ LoadModel
    \/ Copy
    \/ NewTensor
    \/ GetGraph
    \/ PreSession
    \/ PreRun
    \/ NormalizeReturn
    \/ NewSession
    \/ Run
    \/ Rank
    \/ PrintLabel
    \/ Return

Spec == Init /\ [][Next]_vars


\* ----------------------------------------------------------------- claims
Min(a, b) == IF a <= b THEN a ELSE b
IsPrefix(a, b) == Len(a) <= Len(b) /\ a = SubSeq(b, 1, Len(a))
Project(t, S) == SelectSeq(t, LAMBDA x : x \in S)
Ranked == rankOutcome # "none"
Available == Min(Len(labels), Len(probabilities))
PairAt(i) == MkLabel(labels[i], probabilities[i])

\* C1 (as claimed): with more probabilities than labels, getTopFiveLabels
\* completes without an error and every entry it returns is the pair
\* (labels[i], probabilities[i]) of an index i < len(labels).
C1_ExtraProbabilitiesDropped ==
    (Ranked /\ Len(probabilities) > Len(labels)) =>
        /\ rankOutcome = "ok"
        /\ \A k \in 1..Len(res) : \E i \in 1..Len(labels) : res[k] = PairAt(i)

\* C2 (as claimed): with fewer than 5 pairs available the ranker returns
\* fewer than 5 results or fails with InsufficientResultsError, and ends in
\* no other kind of failure.
C2_FewerThanKIsDefined ==
    (Ranked /\ Available < 5) =>
        \/ rankOutcome = "ok" /\ Len(res) < 5
        \/ rankOutcome = "InsufficientResultsError"

\* C3 (as claimed): ranking yields the first k entries of the paired list
\* sorted by probability descending: min(k, available) entries, each the pair
\* of a distinct index below min(len(labels), len(probabilities)), and no
\* pair left out has a probability above a returned one (so that cat 0.1,
\* dog 0.7, fish 0.2 ranks dog, then fish, first).
C3_ResultIsTopOfSortedPairs ==
    Ranked =>
        /\ rankOutcome = "ok"
        /\ Len(res) = Min(5, Available)
        /\ \A k \in 1..Len(res) : \E i \in 1..Available : res[k] = PairAt(i)
        /\ \A j, k \in 1..Len(res) : j # k => res[j].Label # res[k].Label
        /\ \A i \in 1..Available :
              (\A k \in 1..Len(res) : res[k].Label # labels[i]) =>
                  \A k \in 1..Len(res) : probabilities[i] <= res[k].Probability

C5_ExactlyFive ==
    (Ranked /\ Len(probabilities) >= 5 /\ Len(labels) >= Len(probabilities)) =>
        /\ rankOutcome = "ok"
        /\ Len(res) = 5

C5_Witness ==
    /\ rankOutcome = "ok"
    /\ Len(probabilities) > 5
    /\ Len(labels) >= Len(probabilities)
    /\ Len(res) = 5

\* C6 (as claimed): the preprocessing graph is built, the preprocessing run is
\* executed, then the classification graph and label table are loaded, then
\* the classification run is executed, then the ranking; the load never
\* happens before the preprocessing run has finished.
Stages == {"loadModel", "getNormalizedGraph", "preRun", "run", "rank"}
C6_LoadAfterPreprocessing ==
    IsPrefix(Project(trace, Stages),
             <<"getNormalizedGraph", "preRun", "loadModel", "run", "rank">>)

\* C6 (amended): the classification graph and label table are loaded first,
\* then the preprocessing graph is built, then the preprocessing run is
\* executed, then the classification run, then the ranking.
C6_LoadBeforePreprocessing ==
    IsPrefix(Project(trace, Stages),
             <<"loadModel", "getNormalizedGraph", "preRun", "run", "rank">>)

C6_Witness ==
    /\ pc = "exited"
    /\ exitStatus = 0
    /\ Project(trace, Stages) =
           <<"loadModel", "getNormalizedGraph", "preRun", "run", "rank">>

\* C7 (as claimed): every error a step produces, the error of reading the
\* body into the buffer included, aborts the classification: no later step
\* is executed and no label is printed.
C7_EveryErrorAborts ==
    /\ err # "none" => pc = "exited" /\ Printed = 0
    /\ copyErr => trace[Len(trace)] = "copy" /\ Printed = 0

\* C8: once a stage has reported a failure the process has ended with a
\* non-zero status, no stage is executed twice, and no label line has been
\* or will be printed; label lines are printed only after every stage has
\* succeeded and after the url line.
Failed == err # "none" \/ rankOutcome = "panic"
AllSteps ==
    <<"args", "get", "loadModel", "copy", "newTensor", "getNormalizedGraph",
      "preSession", "preRun", "newSession", "run", "rank">>
C8_FailureEndsWithoutResult ==
    /\ [](/\ Failed => pc = "exited" /\ exitStatus > 0 /\ Printed = 0
          /\ \A i, j \in 1..Len(trace) : i # j => trace[i] # trace[j]
          /\ Printed > 0 => /\ ~Failed
                            /\ trace = AllSteps
                            /\ stdout[1] = UrlLine
                            /\ \A i \in 2..Len(stdout) : stdout[i].kind = "label")
    /\ [][Failed => stdout' = stdout /\ trace' = trace]_vars

C8_Witness ==
    /\ err = "normalizeImage"
    /\ trace[Len(trace)] = "preRun"
    /\ stdout = <<UrlLine>>
    /\ exitStatus = 1

\* C9 (as claimed): when the pipeline has ended, with success or with a
\* failure, no session it created is left open.
C9_SessionsReleased ==
    pc = "exited" => sessions = {}

\* C10: the graph applies placeholder, JPEG decode to 3 channels, cast to
\* float, batch dimension at axis 0, bilinear resize to 224x224 and
\* subtraction of 117 in this order, each consuming the output of the one
\* before; whatever the height, width and components of the source, the
\* tensor at the output port is a float tensor of shape [1, 224, 224, 3].
C10_NormalizedShape ==
    /\ graph # NoGraph =>
          /\ [i \in 1..Len(graph.nodes) |-> graph.nodes[i].op] =
                 <<"Placeholder", "DecodeJpeg", "Cast", "ExpandDims",
                   "ResizeBilinear", "Sub">>
          /\ \A i \in 1..Len(graph.nodes) : graph.nodes[i].in = i - 1
          /\ graph.input = 1 /\ graph.output = 6
          /\ graph.nodes[2].arg = <<3>>
          /\ graph.nodes[3].dtype = "float"
          /\ graph.nodes[4].arg = <<0>>
          /\ graph.nodes[5].arg = <<224, 224>>
          /\ graph.nodes[6].arg = <<117>>
    /\ pc = "normReturn" =>
          /\ normalized.dtype = "float"
          /\ normalized.shape = <<1, 224, 224, 3>>

C10_Witness ==
    /\ pc = "normReturn"
    /\ buf.valid /\ buf.h # buf.w /\ buf.c = 4
    /\ normalized.shape = <<1, 224, 224, 3>>

=============================================================================
